---- MODULE Spec2Model ----
(***************************************************************************)
(* distroclone (src/distroclone/main.py): deep merge of an override tree   *)
(* into the distribution manifest, the capped repository set, and the      *)
(* reconciliation of an output directory against it.                       *)
(*                                                                         *)
(* Python objects live in a heap: a dict is an insertion-ordered list of   *)
(* entries [k, x]; a value x is [t, v] with t the concrete type and v the  *)
(* payload (for a dict, the id of the object in the heap; for a list, the  *)
(* index of the list in PackageLists).                                     *)
(***************************************************************************)
EXTENDS Integers, Sequences, FiniteSets, TLC

VARIABLES
    pc,                   \* position of the running call
    heap,                 \* id -> dict
    heap0,                \* the heap as loaded, before any merge
    a, b, logger,         \* the arguments of the merge call (SpecMerge)
    warnings,             \* logger.warning records emitted
    error,                \* "" or the exception that left the call
    config,               \* the parsed arguments: distro, config_file, max_repos
    cfgfile,              \* the file config_file names: its state and the dict it holds
    data,                 \* the dict data['repositories'] of the manifest
    repositories,         \* the dict the resolver returned
    disk,                 \* output_dir: its entries, the packages under each, _release's entries
    remote,               \* what a clone of each repository holds
    existing_directories, \* the last os.listdir result
    packages_set,         \* names of the packages found, then also those requested
    vcs_repos,            \* vcs_repos['repositories'], the request being built
    ops,                  \* this run's rmtree, import_main and pull_main calls
    run,                  \* number of the run of main
    start,                \* disk when this run started
    prev                  \* disk and ops when the previous run ended

resolverVars == <<config, cfgfile, data, repositories>>

driverVars == <<disk, remote, existing_directories, packages_set, vcs_repos,
                ops, run, start, prev>>

vars == <<pc, heap, heap0, a, b, logger, warnings, error,
          config, cfgfile, data, repositories,
          disk, remote, existing_directories, packages_set, vcs_repos,
          ops, run, start, prev>>

\* Nesting depth of the trees handed to merge.
MaxDepth == 2

\* Largest --max-repos tried (the smallest is -1, no limit).
MaxCount == 3

\* Runs of main in a row over the same output directory.
MaxRuns == 2

-----------------------------------------------------------------------------
\* Values and dicts

Val(t, v) == [t |-> t, v |-> v]

Absent == Val("absent", 0)

Has(d, key) == \E i \in DOMAIN d : d[i].k = key

Get(d, key) == d[CHOOSE i \in DOMAIN d : d[i].k = key].x

Keys(d) == [i \in DOMAIN d |-> d[i].k]

SeqSet(s) == {s[i] : i \in DOMAIN s}

\* A store that never replaces the value of a key the dict has.
PutDropsExisting(d, key, x) ==
    IF Has(d, key) THEN d ELSE Append(d, [k |-> key, x |-> x])

\* d[key] = x on a Python dict: an existing key keeps its position.
Put(d, key, x) ==
    IF Has(d, key)
    THEN [i \in DOMAIN d |-> IF d[i].k = key THEN [k |-> key, x |-> x] ELSE d[i]]
    ELSE Append(d, [k |-> key, x |-> x])

\* isinstance(a[key], dict) and isinstance(b[key], dict)
BothDicts(av, bv) == av.t = "dict" /\ bv.t = "dict"

\* type(a[key]) == type(b[key])
SameType(av, bv) == av.t = bv.t

\* The recursive call of merge passes no logger: the default None applies.
NestedLogger(lg) == FALSE

\* A conflict branch that also stores the override's value.
ConflictOverrideWins(st, obj, path, av, bv, lg) ==
    IF lg
    THEN [st EXCEPT !.warnings = Append(@, [kind |-> "conflict", path |-> path,
                                            a |-> av, b |-> bv]),
                    !.heap[obj] = Put(@, path[Len(path)], bv)]
    ELSE [st EXCEPT !.error = "RuntimeError"]

\* The conflict branch: a warning when a logger is given, else RuntimeError.
\* Neither branch assigns a[key].
Conflict(st, obj, path, av, bv, lg) ==
    IF lg
    THEN [st EXCEPT !.warnings = Append(@, [kind |-> "conflict", path |-> path,
                                            a |-> av, b |-> bv])]
    ELSE [st EXCEPT !.error = "RuntimeError"]

RECURSIVE mergeFrom(_, _, _, _, _, _)
\* The loop `for key in b` from its i-th key on; an exception ends it.
mergeFrom(st, ida, idb, i, path, lg) ==
    IF st.error # "" \/ i > Len(st.heap[idb]) THEN st
    ELSE LET key == st.heap[idb][i].k
             bv  == st.heap[idb][i].x
             da  == st.heap[ida]
             st1 == IF Has(da, key)
                    THEN LET av == Get(da, key) IN
                         IF BothDicts(av, bv)
                         THEN mergeFrom(st, av.v, bv.v, 1, Append(path, key),
                                        NestedLogger(lg))
                         ELSE IF SameType(av, bv)
                         THEN [st EXCEPT !.heap[ida] = Put(da, key, bv)]
                         ELSE Conflict(st, ida, Append(path, key), av, bv, lg)
                    ELSE [st EXCEPT !.heap[ida] = Put(da, key, bv)]
         IN mergeFrom(st1, ida, idb, i + 1, path, lg)

\* merge(a, b, path, logger): a is mutated in the heap and returned.
merge(h, ida, idb, path, lg) ==
    mergeFrom([heap |-> h, warnings |-> <<>>, error |-> ""], ida, idb, 1, path, lg)

-----------------------------------------------------------------------------
\* The output directory

\* Names a directory of output_dir can have, besides _release.
DirNames == {"a", "b", "c", "x", "junk"}

NoOps == [removed |-> {}, imports |-> <<>>, pulls |-> <<>>]

EmptyDisk == [tree |-> {}, content |-> [n \in DirNames |-> {}], release |-> {}]

\* What open and yaml.safe_load make of the file config_file names.
FileStates == {"missing", "unparsable", "ok"}

NoFile == [state |-> "missing", root |-> 0]

\* No run of main: the state of the driver while merge or the resolver is
\* called on its own.
NoDriver ==
    /\ disk = EmptyDisk
    /\ remote = "full"
    /\ existing_directories = {}
    /\ packages_set = {}
    /\ vcs_repos = <<>>
    /\ ops = NoOps
    /\ run = 1
    /\ start = EmptyDisk
    /\ prev = [disk |-> EmptyDisk, ops |-> NoOps]

-----------------------------------------------------------------------------
\* Trees handed to merge: a chain of dicts, one per level, over the keys
\* "x" and "y"; "y" may hold the dict of the next level.

Leaf(pay) == {Absent, Val("int", pay), Val("str", pay)}

MkDict(xv, yv) ==
    (IF xv.t = "absent" THEN <<>> ELSE <<[k |-> "x", x |-> xv]>>)
    \o (IF yv.t = "absent" THEN <<>> ELSE <<[k |-> "y", x |-> yv]>>)

RECURSIVE Chains(_, _, _)
Chains(l, pay, base) ==
    LET flat == {MkDict(xv, yv) : xv \in Leaf(pay), yv \in Leaf(pay)} IN
    IF l >= MaxDepth THEN {<<d>> : d \in flat}
    ELSE {<<d>> \o [j \in 1..(MaxDepth - l) |-> <<>>] : d \in flat}
         \cup {<<MkDict(xv, Val("dict", base + l + 1))>> \o rest :
                 xv \in Leaf(pay), rest \in Chains(l + 1, pay, base)}

InitMerge ==
    /\ pc = "call"
    /\ \E ca \in Chains(1, 1, 0), cb \in Chains(1, 9, MaxDepth) : heap = ca \o cb
    /\ heap0 = heap
    /\ a = 1
    /\ b = MaxDepth + 1
    /\ logger \in BOOLEAN
    /\ warnings = <<>>
    /\ error = ""
    /\ config = [distro |-> "rolling", config_file |-> FALSE, max_repos |-> -1]
    /\ cfgfile = NoFile
    /\ data = 0
    /\ repositories = <<>>
    /\ NoDriver

CallMerge ==
    /\ pc = "call"
    /\ LET st == merge(heap, a, b, <<>>, logger) IN
       /\ heap' = st.heap
       /\ warnings' = st.warnings
       /\ error' = st.error
       /\ pc' = IF st.error = "" THEN "returned" ELSE "raised"
    /\ UNCHANGED <<heap0, a, b, logger>>
    /\ UNCHANGED resolverVars
    /\ UNCHANGED driverVars

NextMerge == CallMerge

SpecMerge == InitMerge /\ [][NextMerge]_vars

-----------------------------------------------------------------------------
\* The manifest and the override file, as yaml.safe_load builds them

Entry(key, x) == [k |-> key, x |-> x]

\* release.packages lists; a list value holds the index of its list.
PackageLists == << <<"p1", "p2">>, <<"p2">>, <<"p3">> >>

\* The objects of one manifest entry, laid out from id base + 1 on, and the
\* value the repositories dict holds for it. "a" has a source and a release
\* of two packages, "b" only a doc location and a release, "c" is
\* release-only.
ManifestEntry(name, base) ==
    CASE name = "a" ->
           [objs |-> << <<Entry("url", Val("str", 1))>>,
                        <<Entry("url", Val("str", 1)), Entry("packages", Val("list", 1))>>,
                        <<Entry("source", Val("dict", base + 1)),
                          Entry("release", Val("dict", base + 2))>> >>,
            x |-> Val("dict", base + 3)]
      [] name = "b" ->
           [objs |-> << <<Entry("url", Val("str", 2))>>,
                        <<Entry("url", Val("str", 2)), Entry("packages", Val("list", 2))>>,
                        <<Entry("doc", Val("dict", base + 1)),
                          Entry("release", Val("dict", base + 2))>> >>,
            x |-> Val("dict", base + 3)]
      [] OTHER ->
           [objs |-> << <<Entry("url", Val("str", 3)), Entry("packages", Val("list", 3))>>,
                        <<Entry("release", Val("dict", base + 1))>> >>,
            x |-> Val("dict", base + 2)]

\* One entry of an override file: a source location (the example of the
\* parser's help text), a bare string, or an entry whose release is a string.
OverrideEntry(item, base) ==
    CASE item.kind = "patch" ->
           [objs |-> << <<Entry("url", Val("str", 7))>>,
                        <<Entry("source", Val("dict", base + 1))>> >>,
            x |-> Val("dict", base + 2)]
      [] item.kind = "top" ->
           [objs |-> <<>>, x |-> Val("str", 7)]
      [] OTHER ->
           [objs |-> << <<Entry("release", Val("str", 7))>> >>,
            x |-> Val("dict", base + 1)]

RECURSIVE LoadManifest(_, _, _, _)
\* The objects of the entries names[i..], added to dict root of heap h.
LoadManifest(h, root, names, i) ==
    IF i > Len(names) THEN h
    ELSE LET e == ManifestEntry(names[i], Len(h)) IN
         LoadManifest([(h \o e.objs) EXCEPT ![root] = Append(@, Entry(names[i], e.x))],
                      root, names, i + 1)

RECURSIVE LoadOverride(_, _, _, _)
LoadOverride(h, root, items, i) ==
    IF i > Len(items) THEN h
    ELSE LET e == OverrideEntry(items[i], Len(h)) IN
         LoadOverride([(h \o e.objs) EXCEPT ![root] = Append(@, Entry(items[i].name, e.x))],
                      root, items, i + 1)

ManifestNames == {"a", "b", "c"}

\* The manifests tried: the repository names in any order, any subset.
Manifests ==
    {s \in UNION {[1..n -> ManifestNames] : n \in 0..3} :
        \A i, j \in DOMAIN s : i # j => s[i] # s[j]}

OverrideNames == ManifestNames \cup {"x"}

\* The override files tried: up to two entries; the first may be a bare
\* string or hold a string where the manifest holds a dict.
Overrides ==
    {s \in UNION {[1..n -> [name : OverrideNames, kind : {"patch", "top", "nested"}]] :
                    n \in 0..2} :
        /\ \A i, j \in DOMAIN s : i # j => s[i].name # s[j].name
        /\ \A i \in DOMAIN s : i > 1 => s[i].kind = "patch"}

-----------------------------------------------------------------------------
\* The resolver

\* read_cfg_file(fname): the loaded dict, or None (0) for a file that is
\* missing (IOError) or does not parse (yaml.YAMLError).
read_cfg_file(file) == IF file.state = "ok" THEN file.root ELSE 0

\* Python truth of what read_cfg_file returned: None and {} are false.
Truthy(h, id) == id # 0 /\ Len(h[id]) > 0

RECURSIVE LimitFrom(_, _, _, _, _, _)
\* The loop `for key in keys` filling limited_repositories: it stores
\* first and tests the count after.
LimitFrom(limited, keys, repos, i, count, max) ==
    IF i > Len(keys) THEN limited
    ELSE LET l1 == Put(limited, keys[i], Get(repos, keys[i])) IN
         IF count + 1 >= max THEN l1
         ELSE LimitFrom(l1, keys, repos, i + 1, count + 1, max)

\* get_local_repositories(config): the local file's repositories, capped.
get_local_repositories(h, root, cfg) ==
    [heap |-> h, warnings |-> <<>>, error |-> "",
     repositories |-> IF cfg.max_repos >= 0
                      THEN LimitFrom(<<>>, Keys(h[root]), h[root], 1, 0, cfg.max_repos)
                      ELSE h[root]]

NoFileWarning == [kind |-> "nofile", path |-> <<>>, a |-> Absent, b |-> Absent]

\* A resolver that raises whenever the file did not load.
NoRepoMergeRaises(st, lg) == [st EXCEPT !.error = "RuntimeError"]

\* Lines 205-209, the file did not load: a warning when a logger is given,
\* else RuntimeError.
NoRepoMerge(st, lg) ==
    IF lg THEN [st EXCEPT !.warnings = Append(@, NoFileWarning)]
          ELSE [st EXCEPT !.error = "RuntimeError"]

\* The keys the cap walks: the override's first, then all of the manifest's.
LimitKeys(h, root, repoMerge) ==
    (IF Truthy(h, repoMerge) THEN Keys(h[repoMerge]) ELSE <<>>) \o Keys(h[root])

\* get_extended_distribution_cache(index, config, logger)
get_extended_distribution_cache(h, root, cfg, file, lg) ==
    LET repoMerge == IF cfg.config_file THEN read_cfg_file(file) ELSE 0
        st0 == [heap |-> h, warnings |-> <<>>, error |-> ""]
        \* lines 205-209
        st1 == IF cfg.config_file /\ ~Truthy(h, repoMerge)
               THEN NoRepoMerge(st0, lg)
               ELSE st0
        \* lines 210-212: logger.info on a logger that is None
        st2 == IF st1.error = "" /\ cfg.config_file /\ Truthy(h, repoMerge)
               THEN IF lg THEN merge(h, root, repoMerge, <<>>, lg)
                          ELSE [st1 EXCEPT !.error = "AttributeError"]
               ELSE st1
    IN  IF st2.error # "" THEN st2 @@ [repositories |-> <<>>]
        ELSE st2 @@
             [repositories |->
                 IF cfg.max_repos >= 0
                 THEN LimitFrom(<<>>, LimitKeys(st2.heap, root, repoMerge),
                                st2.heap[root], 1, 0, cfg.max_repos)
                 ELSE st2.heap[root]]

Configs ==
    [distro : {"rolling", "github"}, config_file : BOOLEAN,
     max_repos : -1..MaxCount]

\* The manifest at id 1 and, behind it, the override file when it loads.
InitFiles ==
    \E names \in Manifests, st \in FileStates, items \in Overrides :
        LET h == LoadManifest(<< <<>> >>, 1, names, 1) IN
        /\ data = 1
        /\ st # "ok" => items = <<>>
        /\ IF st = "ok"
           THEN /\ heap = LoadOverride(Append(h, <<>>), Len(h) + 1, items, 1)
                /\ cfgfile = [state |-> "ok", root |-> Len(h) + 1]
           ELSE heap = h /\ cfgfile = [state |-> st, root |-> 0]

InitResolve ==
    /\ pc = "start"
    /\ config \in Configs
    /\ InitFiles
    /\ config.distro = "github" => ~config.config_file
    /\ ~config.config_file => cfgfile = NoFile
    /\ heap0 = heap
    /\ a = 0 /\ b = 0
    /\ logger \in BOOLEAN
    /\ warnings = <<>>
    /\ error = ""
    /\ repositories = <<>>
    /\ NoDriver

\* main, lines 45-49: the repository set of the run.
Resolve ==
    /\ pc = "start"
    /\ LET r == IF config.distro = "github"
                THEN get_local_repositories(heap, data, config)
                ELSE get_extended_distribution_cache(heap, data, config, cfgfile, logger)
       IN /\ heap' = r.heap
          /\ warnings' = r.warnings
          /\ error' = r.error
          /\ repositories' = r.repositories
          /\ pc' = IF r.error = "" THEN "resolved" ELSE "failed"
    /\ UNCHANGED <<heap0, a, b, logger, config, cfgfile, data>>
    /\ UNCHANGED driverVars

NextResolve == Resolve

SpecResolve == InitResolve /\ [][NextResolve]_vars

-----------------------------------------------------------------------------
\* The run of main

Packages == {"p1", "p2", "p3"}

\* What find_packages sees in a clone of repository key: every declared
\* package, or a clone that lacks some.
RemotePackages(rem, key) ==
    CASE key = "a" -> IF rem = "full" THEN {"p1", "p2"} ELSE {"p1"}
      [] key = "b" -> IF rem = "full" THEN {"p2"} ELSE {}
      [] OTHER -> {}

\* A prune that does not set _release aside.
PruneTargetsWithRelease(listed, repos) ==
    {name \in listed : ~Has(repos, name)}

\* Lines 50-54: the listed names, without _release, that are no key of
\* repositories.
PruneTargets(listed, repos) ==
    {name \in listed \ {"_release"} : ~Has(repos, name)}

\* shutil.rmtree of each of names under output_dir.
RmtreeMain(d, names) ==
    [d EXCEPT !.tree = @ \ names,
              !.content = [n \in DirNames |-> IF n \in names THEN {} ELSE @[n]],
              !.release = IF "_release" \in names THEN {} ELSE @]

\* repo.get('source', repo.get('doc')) on an entry dict; Absent for None.
CloneRepo(h, repo) ==
    IF Has(h[repo.v], "source") THEN Get(h[repo.v], "source")
    ELSE IF Has(h[repo.v], "doc") THEN Get(h[repo.v], "doc")
    ELSE Absent

\* Python truth of a value: None is false, a dict is true when not empty.
TruthyVal(h, x) ==
    /\ x.t # "absent"
    /\ x.t = "dict" => Len(h[x.v]) > 0

RECURSIVE CloneRequests(_, _, _, _)
\* Lines 59-63. An entry that is no dict has no get: AttributeError.
CloneRequests(acc, h, repos, i) ==
    IF i > Len(repos) THEN acc
    ELSE IF repos[i].x.t # "dict" THEN [acc EXCEPT !.error = "AttributeError"]
    ELSE LET clone_repo == CloneRepo(h, repos[i].x) IN
         CloneRequests(IF TruthyVal(h, clone_repo)
                       THEN [acc EXCEPT !.vcs = Put(@, repos[i].k, clone_repo)]
                       ELSE acc,
                       h, repos, i + 1)

\* import_main(['--force', output_dir]): a working copy per requested key.
Import(d, keys, rem) ==
    [d EXCEPT !.tree = @ \cup keys,
              !.content = [n \in DirNames |->
                              IF n \in keys THEN RemotePackages(rem, n) ELSE @[n]]]

\* import_main(['--force', '--repos', output_dir_release])
ImportRelease(d, keys) == [d EXCEPT !.release = @ \cup keys]

\* Lines 73-76: the names of the packages under output_dir, _release
\* excluded.
find_packages(d) == UNION {d.content[n] : n \in d.tree \ {"_release"}}

\* release and 'packages' in release
HasPackages(h, release) ==
    /\ release.t = "dict"
    /\ Has(h[release.v], "packages")

\* A request that does not mark package_name found.
RequestWithoutMark(acc, package_name, url, distro) ==
    [acc EXCEPT !.vcs = Put(@, package_name,
                            [type |-> "git", url |-> url,
                             version |-> <<"release", distro, package_name>>])]

\* Lines 88-94: the request for package_name, which is then marked found.
Request(acc, package_name, url, distro) ==
    [vcs |-> Put(acc.vcs, package_name,
                 [type |-> "git", url |-> url,
                  version |-> <<"release", distro, package_name>>]),
     found |-> acc.found \cup {package_name}]

RECURSIVE SelectFrom(_, _, _, _, _, _)
\* Lines 83-94, from the j-th package of the i-th entry on.
SelectFrom(acc, h, repos, i, j, distro) ==
    IF i > Len(repos) THEN acc
    ELSE LET repo == h[repos[i].x.v]
             release == IF Has(repo, "release") THEN Get(repo, "release") ELSE Absent
         IN
         IF ~HasPackages(h, release) THEN SelectFrom(acc, h, repos, i + 1, 1, distro)
         ELSE LET pk == PackageLists[Get(h[release.v], "packages").v] IN
              IF j > Len(pk) THEN SelectFrom(acc, h, repos, i + 1, 1, distro)
              ELSE SelectFrom(IF pk[j] \notin acc.found
                              THEN Request(acc, pk[j], Get(h[release.v], "url"), distro)
                              ELSE acc,
                              h, repos, i, j + 1, distro)

\* A release prune that keeps only the audited names.
ReleasePruneTargetsAuditedOnly(listed, found, requested) ==
    {package_name \in listed : package_name \notin found \ requested}

\* Lines 104-105: the names listed in _release that are not in packages_set.
ReleasePruneTargets(listed, found, requested) ==
    {package_name \in listed : package_name \notin found}

\* The manifests and override files the runs of main are tried on.
MainManifests == {<<>>, <<"c">>, <<"b", "a">>, <<"a", "b", "c">>}

MainOverrides ==
    {<<>>,
     <<[name |-> "x", kind |-> "patch"]>>,
     <<[name |-> "a", kind |-> "patch"]>>,
     <<[name |-> "b", kind |-> "nested"]>>,
     <<[name |-> "x", kind |-> "top"]>>}

\* Directories found in output_dir before the first run; "c" holds the
\* package p3, "junk" the package p1.
InitDisk ==
    \E tree \in SUBSET {"c", "junk", "_release"}, rel \in SUBSET {"p2", "old"} :
        /\ "_release" \notin tree => rel = {}
        /\ disk = [tree |-> tree,
                   content |-> [n \in DirNames |->
                                   IF n \notin tree THEN {}
                                   ELSE IF n = "c" THEN {"p3"}
                                   ELSE IF n = "junk" THEN {"p1"} ELSE {}],
                   release |-> rel]

Init ==
    /\ pc = "start"
    /\ config \in Configs
    /\ \E names \in MainManifests, st \in FileStates, items \in MainOverrides :
        LET h == LoadManifest(<< <<>> >>, 1, names, 1) IN
        /\ data = 1
        /\ st # "ok" => items = <<>>
        /\ IF st = "ok"
           THEN /\ heap = LoadOverride(Append(h, <<>>), Len(h) + 1, items, 1)
                /\ cfgfile = [state |-> "ok", root |-> Len(h) + 1]
           ELSE heap = h /\ cfgfile = [state |-> st, root |-> 0]
    /\ config.distro = "github" => ~config.config_file
    /\ ~config.config_file => cfgfile = NoFile
    /\ heap0 = heap
    /\ a = 0 /\ b = 0
    /\ logger = TRUE
    /\ warnings = <<>>
    /\ error = ""
    /\ repositories = <<>>
    /\ InitDisk
    /\ remote \in {"full", "partial"}
    /\ existing_directories = {}
    /\ packages_set = {}
    /\ vcs_repos = <<>>
    /\ ops = NoOps
    /\ run = 1
    /\ start = disk
    /\ prev = [disk |-> EmptyDisk, ops |-> NoOps]

callVars == <<heap0, a, b, logger, config, cfgfile, data>>

\* Lines 50-57
Prune ==
    /\ pc = "resolved"
    /\ LET targets == PruneTargets(disk.tree, repositories) IN
       /\ existing_directories' = disk.tree \ {"_release"}
       /\ disk' = RmtreeMain(disk, targets)
       /\ ops' = [ops EXCEPT !.removed = @ \cup {<<"output_dir", n>> : n \in targets}]
    /\ pc' = "pruned"
    /\ UNCHANGED <<heap, warnings, error, repositories, remote, packages_set,
                   vcs_repos, run, start, prev>>
    /\ UNCHANGED callVars

\* Lines 59-69
PrimaryClone ==
    /\ pc = "pruned"
    /\ LET r == CloneRequests([vcs |-> <<>>, error |-> ""], heap, repositories, 1) IN
       IF r.error # ""
       THEN /\ pc' = "failed"
            /\ error' = r.error
            /\ UNCHANGED <<vcs_repos, disk, ops>>
       ELSE /\ pc' = "cloned"
            /\ vcs_repos' = r.vcs
            /\ disk' = Import(disk, SeqSet(Keys(r.vcs)), remote)
            /\ ops' = [ops EXCEPT
                         !.imports = Append(@, [dir |-> "output_dir", repos |-> r.vcs]),
                         !.pulls = Append(@, "output_dir")]
            /\ UNCHANGED error
    /\ UNCHANGED <<heap, warnings, repositories, remote, existing_directories,
                   packages_set, run, start, prev>>
    /\ UNCHANGED callVars

\* Lines 73-81
Audit ==
    /\ pc = "cloned"
    /\ packages_set' = find_packages(disk)
    /\ vcs_repos' = <<>>
    /\ disk' = [disk EXCEPT !.tree = @ \cup {"_release"}]
    /\ existing_directories' = disk.release
    /\ pc' = "audited"
    /\ UNCHANGED <<heap, warnings, error, repositories, remote, ops, run, start, prev>>
    /\ UNCHANGED callVars

\* Lines 83-94
BackfillSelect ==
    /\ pc = "audited"
    /\ LET r == SelectFrom([vcs |-> <<>>, found |-> packages_set], heap, repositories,
                           1, 1, config.distro) IN
       /\ vcs_repos' = r.vcs
       /\ packages_set' = r.found
    /\ pc' = "selected"
    /\ UNCHANGED <<heap, warnings, error, repositories, disk, remote,
                   existing_directories, ops, run, start, prev>>
    /\ UNCHANGED callVars

\* Lines 95-101
BackfillClone ==
    /\ pc = "selected"
    /\ IF vcs_repos # <<>>
       THEN /\ disk' = ImportRelease(disk, SeqSet(Keys(vcs_repos)))
            /\ ops' = [ops EXCEPT
                         !.imports = Append(@, [dir |-> "_release", repos |-> vcs_repos]),
                         !.pulls = Append(@, "_release")]
       ELSE UNCHANGED <<disk, ops>>
    /\ pc' = "backfilled"
    /\ UNCHANGED <<heap, warnings, error, repositories, remote, existing_directories,
                   packages_set, vcs_repos, run, start, prev>>
    /\ UNCHANGED callVars

\* Lines 103-108
ReleasePrune ==
    /\ pc = "backfilled"
    /\ LET targets == ReleasePruneTargets(existing_directories, packages_set,
                                          SeqSet(Keys(vcs_repos))) IN
       /\ disk' = [disk EXCEPT !.release = @ \ targets]
       /\ ops' = [ops EXCEPT !.removed = @ \cup {<<"_release", n>> : n \in targets}]
    /\ pc' = "done"
    /\ UNCHANGED <<heap, warnings, error, repositories, remote, existing_directories,
                   packages_set, vcs_repos, run, start, prev>>
    /\ UNCHANGED callVars

\* Lines 232-233: main is run again on the same output directory, with the
\* same arguments, manifest and override file.
Rerun ==
    /\ pc = "done"
    /\ run < MaxRuns
    /\ run' = run + 1
    /\ pc' = "start"
    /\ heap' = heap0
    /\ warnings' = <<>>
    /\ repositories' = <<>>
    /\ existing_directories' = {}
    /\ packages_set' = {}
    /\ vcs_repos' = <<>>
    /\ prev' = [disk |-> disk, ops |-> ops]
    /\ ops' = NoOps
    /\ start' = disk
    /\ UNCHANGED <<error, disk, remote>>
    /\ UNCHANGED callVars

Next ==
    \/ Resolve
    \/ Prune
    \/ PrimaryClone
    \/ Audit
    \/ BackfillSelect
    \/ BackfillClone
    \/ ReleasePrune
    \/ Rerun

Spec == Init /\ [][Next]_vars

-----------------------------------------------------------------------------
\* What the trees hold, read off the heap

RECURSIVE Nodes(_, _, _)
\* Every node below dict id, as [path, t, v]; a dict node carries v = 0.
Nodes(h, id, path) ==
    UNION {LET e == h[id][i]
               p == Append(path, e.k) IN
           IF e.x.t = "dict"
           THEN {[path |-> p, t |-> "dict", v |-> 0]} \cup Nodes(h, e.x.v, p)
           ELSE {[path |-> p, t |-> e.x.t, v |-> e.x.v]}
           : i \in DOMAIN h[id]}

RECURSIVE Reach(_, _)
\* The dict objects a tree is made of.
Reach(h, id) ==
    {id} \cup UNION {IF h[id][i].x.t = "dict" THEN Reach(h, h[id][i].x.v) ELSE {}
                     : i \in DOMAIN h[id]}

RECURSIVE HasConflict(_, _, _)
\* Some key, at any depth, is in both trees with different concrete types.
HasConflict(h, ida, idb) ==
    \E i \in DOMAIN h[idb] :
        LET key == h[idb][i].k
            bv  == h[idb][i].x IN
        /\ Has(h[ida], key)
        /\ LET av == Get(h[ida], key) IN
           IF av.t = "dict" /\ bv.t = "dict"
           THEN HasConflict(h, av.v, bv.v)
           ELSE av.t # bv.t

\* The top-level keys in both trees whose values differ in type.
TopConflictKeys ==
    {key \in {"x", "y"} :
        /\ Has(heap0[a], key) /\ Has(heap0[b], key)
        /\ Get(heap0[a], key).t # Get(heap0[b], key).t}

WarningsFor(key) == {i \in DOMAIN warnings : warnings[i].path = <<key>>}

MergeEnded == pc \in {"returned", "raised"}

\* C1 (as stated): with a logger, a top-level key whose values differ in type
\* ends up holding the override's value, and one warning names it.
C1_OverrideWinsOnConflict ==
    (pc = "returned" /\ logger) =>
        \A key \in TopConflictKeys :
            /\ Get(heap[a], key) = Get(heap0[b], key)
            /\ Cardinality(WarningsFor(key)) = 1

\* C1 (amended): with a logger, a top-level key whose values differ in type
\* keeps the value base held before the call, whether the call returns or
\* not; when the call returns exactly one warning names the key, and never
\* more than one.
C1_BaseKeptOnConflict ==
    (MergeEnded /\ logger) =>
        \A key \in TopConflictKeys :
            /\ Get(heap[a], key) = Get(heap0[a], key)
            /\ Cardinality(WarningsFor(key)) <= 1
            /\ pc = "returned" => Cardinality(WarningsFor(key)) = 1

C1_Witness ==
    /\ pc = "returned" /\ logger
    /\ "x" \in TopConflictKeys
    /\ Get(heap0[a], "x") = Val("int", 1)
    /\ Get(heap0[b], "x") = Val("str", 9)
    /\ Len(warnings) = 1

\* C2: merge raises exactly when no logger was given and some key at any
\* depth is in both trees with different concrete types.
C2_RaisesIffNoSinkAndConflict ==
    MergeEnded => (pc = "raised" <=> (~logger /\ HasConflict(heap0, a, b)))

\* C6: for trees without type-conflicting keys merge returns; the nodes of
\* the result are those of b together with those of a at paths b does not
\* have; a dict in both is merged into a's own object, a key only in b
\* holds b's value; no object of b is changed.
C6_MergeWithoutConflict ==
    (MergeEnded /\ ~HasConflict(heap0, a, b)) =>
        /\ pc = "returned"
        /\ error = "" /\ warnings = <<>>
        /\ Nodes(heap, a, <<>>) =
               Nodes(heap0, b, <<>>)
               \cup {n \in Nodes(heap0, a, <<>>) :
                        \A m \in Nodes(heap0, b, <<>>) : m.path # n.path}
        /\ \A i \in DOMAIN heap0[b] :
               LET key == heap0[b][i].k IN
               IF Has(heap0[a], key) /\ BothDicts(Get(heap0[a], key), heap0[b][i].x)
               THEN Get(heap[a], key) = Get(heap0[a], key)
               ELSE Get(heap[a], key) = heap0[b][i].x
        /\ \A id \in Reach(heap0, b) : heap[id] = heap0[id]

C6_Witness ==
    /\ pc = "returned"
    /\ ~HasConflict(heap0, a, b)
    /\ heap0[a] = <<[k |-> "x", x |-> Val("int", 1)], [k |-> "y", x |-> Val("dict", 2)]>>
    /\ heap0[2] = <<[k |-> "x", x |-> Val("str", 1)]>>
    /\ heap0[b] = <<[k |-> "x", x |-> Val("int", 9)],
                    [k |-> "y", x |-> Val("dict", MaxDepth + 2)]>>
    /\ heap0[MaxDepth + 2] = <<[k |-> "x", x |-> Val("str", 9)], [k |-> "y", x |-> Val("int", 9)]>>
    /\ heap[a] = <<[k |-> "x", x |-> Val("int", 9)], [k |-> "y", x |-> Val("dict", 2)]>>
    /\ heap[2] = <<[k |-> "x", x |-> Val("str", 9)], [k |-> "y", x |-> Val("int", 9)]>>

-----------------------------------------------------------------------------
\* The resolver's claims

Min(m, n) == IF m <= n THEN m ELSE n

RECURSIVE Without(_, _)
\* The elements of sequence s that are not in set S, in order.
Without(s, S) ==
    IF s = <<>> THEN <<>>
    ELSE (IF s[1] \in S THEN <<>> ELSE <<s[1]>>) \o Without(Tail(s), S)

\* The override the resolver merged: its keys, in its order.
OverrideKeys ==
    IF config.distro # "github" /\ config.config_file
       /\ Truthy(heap0, read_cfg_file(cfgfile))
    THEN Keys(heap0[read_cfg_file(cfgfile)]) ELSE <<>>

\* The merged manifest's names: the manifest's in their order, then the
\* names only the override has.
MergedKeys ==
    Keys(heap0[data]) \o Without(OverrideKeys, SeqSet(Keys(heap0[data])))

\* The order of selection: the override's keys, then the rest of the
\* manifest's.
SelectionOrder ==
    OverrideKeys \o Without(Keys(heap0[data]), SeqSet(OverrideKeys))

\* C4: for max_repos >= 0, 0 included, the resolver returns at most
\* max_repos entries; for a negative max_repos it returns the whole merged
\* manifest in its order.
C4_AtMostMaxCount ==
    pc = "resolved" =>
        /\ config.max_repos >= 0 => Len(repositories) <= config.max_repos
        /\ config.max_repos < 0 =>
               /\ repositories = heap[data]
               /\ Keys(repositories) = MergedKeys

\* C5: for max_repos >= 1 the names returned are the first
\* min(max_repos, N) of the selection order, N the number of names of the
\* merged manifest; an override key the manifest already has is selected
\* once and uses one slot.
C5_FirstOfSelectionOrder ==
    (pc = "resolved" /\ config.max_repos >= 1) =>
        SeqSet(Keys(repositories)) =
            {SelectionOrder[i] : i \in 1..Min(config.max_repos, Len(MergedKeys))}

-----------------------------------------------------------------------------
\* The claims about a run of main

\* An override file was asked for and read_cfg_file could not load it.
LoadFailed == config.config_file /\ cfgfile.state # "ok"

IsPrefix(s, t) == Len(s) <= Len(t) /\ \A i \in DOMAIN s : s[i] = t[i]

C7_PruneKeepsKeysAndRelease ==
    pc = "pruned" =>
        /\ disk.tree = {n \in start.tree : Has(repositories, n) \/ n = "_release"}
        /\ ops.removed = {<<"output_dir", n>> : n \in start.tree \ disk.tree}
        /\ disk.release = start.release

C7_Witness ==
    /\ pc = "pruned"
    /\ start.tree = {"c", "junk", "_release"}
    /\ start.release = {"p2", "old"}
    /\ Has(repositories, "c")
    /\ disk.tree = {"c", "_release"}

\* The packages the i-th entry of the repository set declares.
DeclaredBy(i) ==
    LET repo == heap[repositories[i].x.v] IN
    IF Has(repo, "release") /\ HasPackages(heap, Get(repo, "release"))
    THEN SeqSet(PackageLists[Get(heap[Get(repo, "release").v], "packages").v])
    ELSE {}

Declared == UNION {DeclaredBy(i) : i \in DOMAIN repositories}

FirstDeclaring(p) ==
    CHOOSE i \in DOMAIN repositories :
        /\ p \in DeclaredBy(i)
        /\ \A j \in DOMAIN repositories : p \in DeclaredBy(j) => i <= j

\* C8: the backfill request holds exactly the declared packages that the
\* audit did not find, each once, as a git location with the release url of
\* the first entry declaring it and the version release/<distro>/<name>.
C8_BackfillRequests ==
    pc = "selected" =>
        /\ SeqSet(Keys(vcs_repos)) = Declared \ find_packages(disk)
        /\ Cardinality(SeqSet(Keys(vcs_repos))) = Len(vcs_repos)
        /\ \A i \in DOMAIN vcs_repos :
               LET p == vcs_repos[i].k
                   release == Get(heap[repositories[FirstDeclaring(p)].x.v], "release")
               IN vcs_repos[i].x =
                      [type |-> "git",
                       url |-> Get(heap[release.v], "url"),
                       version |-> <<"release", config.distro, p>>]

C8_Witness ==
    /\ pc = "selected"
    /\ Keys(repositories) = <<"b", "a">>
    /\ find_packages(disk) = {"p1"}
    /\ Keys(vcs_repos) = <<"p2">>
    /\ vcs_repos[1].x.url = Val("str", 2)

\* C9 (as stated): a second run over an unchanged manifest performs no
\* clone, primary or backfill, and no delete, and leaves the tree as the
\* first run left it.
C9_SecondRunDoesNothing ==
    (pc = "done" /\ run >= 2) =>
        /\ \A i \in DOMAIN ops.imports : ops.imports[i].repos = <<>>
        /\ ops.removed = {}
        /\ disk = prev.disk

\* C9 (amended): a second run over an unchanged manifest deletes nothing
\* and leaves the tree as the first run left it; it hands the clone
\* collaborator the same primary and backfill requests as the first run.
C9_SecondRunIsFixedPoint ==
    (pc = "done" /\ run >= 2) =>
        /\ ops.removed = {}
        /\ disk = prev.disk
        /\ ops.imports = prev.ops.imports
        /\ ops.pulls = prev.ops.pulls

C9_Witness ==
    /\ pc = "done" /\ run = 2
    /\ Len(ops.imports) = 2
    /\ ops.imports[1].repos # <<>>
    /\ ops.imports[2].repos # <<>>
    /\ prev.ops.removed # {}

ReleaseRemoved == {n \in Packages \cup {"old"} : <<"_release", n>> \in ops.removed}

\* C10: a directory of _release that was there before the backfill clone is
\* deleted exactly when its name is neither an audited package name nor
\* requested for backfill in this run; nothing of _release is deleted
\* before the last phase, and no requested package's directory is deleted.
C10_ReleasePrune ==
    /\ pc # "done" => ReleaseRemoved = {}
    /\ pc = "done" =>
        LET requested == SeqSet(Keys(vcs_repos))
            final == find_packages(disk) \cup requested IN
        /\ ReleaseRemoved = start.release \ final
        /\ disk.release = (start.release \cap final) \cup requested
        /\ ReleaseRemoved \cap requested = {}

C10_Witness ==
    /\ pc = "done"
    /\ start.release = {"p2", "old"}
    /\ "p2" \in SeqSet(Keys(vcs_repos))
    /\ ReleaseRemoved = {"old"}
    /\ disk.release = {"p2", "p3"}

====
